---- MODULE Spec2Model ----
(***************************************************************************)
(* A model of myhdl's fixbv (src/myhdl/_fixbv.py): a fixed-point number    *)
(* kept as a stored integer and a shift, RealWorldValue = si * 2**shift,   *)
(* with optional bounds minsi <= si < maxsi on the stored integer.         *)
(*                                                                         *)
(* heap holds the fields of the fixbv instances the program has bound to   *)
(* names; res holds the call that has just returned (or raised) until the  *)
(* caller goes on to its next statement.                                   *)
(***************************************************************************)
EXTENDS Integers, Sequences, FiniteSets, TLC

VARIABLES heap, res

vars == <<heap, res>>

\* no call is pending: the caller is between two statements
Idle == [op |-> "idle"]

(***************************************************************************)
(* Bounds of the model.                                                    *)
(***************************************************************************)
\* largest magnitude of a stored integer an instance of Spec may hold
MaxSi == 7
\* largest magnitude of a shift given to the constructor
MaxShift == 1
\* magnitude of the non-zero bounds given to the constructor and the setters
MaxBound == 4
\* largest magnitude of the stored integers of the operands of SpecOps
MaxVal == 3
\* largest bit index, slice index and shift count passed in
MaxIdx == 3
\* largest shift count or power an instance operand may stand for
MaxCount == 8
\* largest magnitude of a stored integer of SpecCopy
MaxCopy == 2
\* the floats passed in are the multiples of 2**-FracBits
FracBits == 2

(***************************************************************************)
(* Python values.                                                          *)
(***************************************************************************)
\* None, and an optional integer that is not None
None == <<>>
Some(v) == <<v>>
IsNone(o) == Len(o) = 0

Min(a, b) == IF a <= b THEN a ELSE b
Max(a, b) == IF a >= b THEN a ELSE b

\* 2**n for n >= 0
pow2(n) == 2 ^ n

\* a ** n for n >= 0
RECURSIVE ipow(_, _)
ipow(a, n) == IF n = 0 THEN 1 ELSE a * ipow(a, n - 1)

\* Python's a // b and a % b on integers, b # 0: the quotient is floored and
\* the remainder takes the sign of the divisor
pyfloordiv(a, b) == IF b > 0 THEN a \div b ELSE (-a) \div (-b)
pymod(a, b) == IF b > 0 THEN a % b ELSE -((-a) % (-b))

\* Python's a >> n and a << n for n >= 0 (a negative n raises ValueError)
pyrshift(a, n) == a \div pow2(n)
pylshift(a, n) == a * pow2(n)

\* Python's ~a, a & b and a | b on integers of unbounded two's complement
pyinvert(a) == -a - 1

RECURSIVE pyand(_, _)
pyand(a, b) ==
    IF a = 0 \/ b = 0 THEN 0
    ELSE IF a = -1 THEN b
    ELSE IF b = -1 THEN a
    ELSE (IF a % 2 = 1 /\ b % 2 = 1 THEN 1 ELSE 0) + 2 * pyand(a \div 2, b \div 2)

RECURSIVE pyor(_, _)
pyor(a, b) ==
    IF a = 0 THEN b
    ELSE IF b = 0 THEN a
    ELSE IF a = -1 \/ b = -1 THEN -1
    ELSE (IF a % 2 = 1 \/ b % 2 = 1 THEN 1 ELSE 0) + 2 * pyor(a \div 2, b \div 2)

(***************************************************************************)
(* The module's functions.                                                 *)
(***************************************************************************)
\* Variant of alignvalues whose else branch hands its two results back in
\* the order of the swapped call
alignvalues_noswap(a, b) ==
    IF a[2] >= b[2]
    THEN <<(<<a[1] * pow2(a[2] - b[2]), b[2]>>), b>>
    ELSE <<(<<b[1] * pow2(b[2] - a[2]), a[2]>>), a>>

\* alignvalues(a, b) on pairs <<val, shift>>: the pair with the larger shift
\* is rescaled to the smaller shift; the else branch calls itself swapped
RECURSIVE alignvalues(_, _)
alignvalues(a, b) ==
    IF a[2] >= b[2]
    THEN <<(<<a[1] * pow2(a[2] - b[2]), b[2]>>), b>>
    ELSE LET r == alignvalues(b, a) IN <<r[2], r[1]>>

\* ceil(log(v, 2)) for v >= 1
RECURSIVE ceillog2(_)
ceillog2(v) == IF v <= 1 THEN 0 ELSE 1 + ceillog2((v + 1) \div 2)

calc_nr_bits(val) ==
    IF val = 0 THEN 0
    ELSE IF val < 0 THEN ceillog2(-val) + 1
    ELSE ceillog2(val + 1) + 1

(***************************************************************************)
(* The fields of a fixbv instance: _val, _shift, _min, _max.               *)
(***************************************************************************)
Obj(val, shift, min, max) == [max |-> max, min |-> min, shift |-> shift, val |-> val]

\* what a call hands back: err is "ok" or the exception raised, obj the
\* instance as the call leaves it, out the value returned
Raise(e, obj) == [err |-> e, obj |-> obj, out |-> None]
Ok(obj, out) == [err |-> "ok", obj |-> obj, out |-> out]

\* _cast of an integer or None (the instance takes no floats unless asked)
cast(v) == IF IsNone(v) THEN None ELSE Some(v[1])

\* Variant of _handleBounds that takes the upper bound as inclusive
handleBounds_inclusive(o) ==
    ~(~IsNone(o.max) /\ ~IsNone(o.min) /\ (o.min[1] > o.val \/ o.val > o.max[1]))

\* _handleBounds: TRUE when it returns, FALSE when it raises ValueError
handleBounds(o) ==
    ~(~IsNone(o.max) /\ ~IsNone(o.min) /\ (o.min[1] > o.val \/ o.val >= o.max[1]))

\* fixbv(val, shift, min, max): __init__ on an integer val
fixbv(val, shift, min, max) ==
    IF ~((IsNone(min) /\ IsNone(max)) \/ (~IsNone(min) /\ ~IsNone(max)))
    THEN Raise("AssertionError", None)
    ELSE LET o == Obj(val, shift, cast(min), cast(max)) IN
         IF ~IsNone(max) /\ ~(o.min[1] < o.max[1])
         THEN Raise("AssertionError", None)
         ELSE IF ~handleBounds(o)
         THEN Raise("ValueError", None)
         ELSE Ok(o, o)

\* fixbv(val) on an instance val: the four fields are copied, then
\* _handleBounds runs on the copy
fixbv_from(val) ==
    LET o == Obj(val.val, val.shift, val.min, val.max) IN
    IF ~handleBounds(o) THEN Raise("ValueError", None) ELSE Ok(o, o)

\* __copy__ and __deepcopy__: fixbv(self.si, self.shift, self.minsi, self.maxsi)
copy(o) == fixbv(o.val, o.shift, o.min, o.max)
deepcopy(o) == fixbv(o.val, o.shift, o.min, o.max)

\* a float argument: the float n * 2**-FracBits
FloatArg(n) == [kind |-> "float", n |-> n]

\* Variant of the float branch of _cast that leaves out the + 0.5, so that
\* int() drops the fraction
floor_half_trunc(n, shift) ==
    LET d == FracBits + shift IN
    IF d <= 0 THEN n * pow2(-d)
    ELSE IF n >= 0 THEN n \div pow2(d) ELSE -((-n) \div pow2(d))

\* int(floor(val * 2**(-shift) + 0.5)) for the float val = n * 2**-FracBits;
\* the product and the sum are exact in floating point for the values used
floor_half(n, shift) ==
    LET d == FracBits + shift IN
    IF d <= 0 THEN n * pow2(-d)
    ELSE (n + pow2(d - 1)) \div pow2(d)

\* _cast(val) of an instance on the given shift: val is None, an integer or a
\* float; a float is quantized when _init_asfloat is set and refused otherwise
cast_number(v, shift, init_asfloat) ==
    IF IsNone(v) THEN Ok(None, None)
    ELSE IF v[1].kind = "float"
    THEN IF init_asfloat THEN Ok(None, Some(floor_half(v[1].n, shift)))
         ELSE Raise("TypeError", None)
    ELSE Ok(None, Some(v[1].n))

\* fixbv(val, shift, min, max, asfloat) on numbers: val, min and max are cast
\* in this order, then min < max is asserted and _handleBounds runs
fixbv_asfloat(val, shift, min, max, asfloat) ==
    IF ~((IsNone(min) /\ IsNone(max)) \/ (~IsNone(min) /\ ~IsNone(max)))
    THEN Raise("AssertionError", None)
    ELSE LET v == cast_number(Some(val), shift, asfloat)
             lo == cast_number(min, shift, asfloat)
             hi == cast_number(max, shift, asfloat) IN
         IF v.err # "ok" THEN v
         ELSE IF lo.err # "ok" THEN lo
         ELSE IF hi.err # "ok" THEN hi
         ELSE fixbv(v.out[1], shift, lo.out, hi.out)

\* fixbv(val, shift), the form every operator builds its result with
new(val, shift) == fixbv(val, shift, None, None).obj

(***************************************************************************)
(* The second operand of an operator: a fixbv instance, or a Python        *)
(* integer that the operator first turns into fixbv(other).                *)
(***************************************************************************)
FixArg(o) == [kind |-> "fixbv", obj |-> o]
IntArg(n) == [kind |-> "int", n |-> n]

\* _isfixbv
isfixbv(other) == other.kind = "fixbv"

is_integer(o) ==
    IF o.shift >= 0 THEN TRUE ELSE o.val % pow2(-o.shift) = 0

\* __int__: int(si * 2**shift); with a negative shift the product is a float
\* and int() drops its fraction, rounding toward zero
toint(o) ==
    IF o.shift >= 0 THEN o.val * pow2(o.shift)
    ELSE IF o.val >= 0 THEN o.val \div pow2(-o.shift)
    ELSE -((-o.val) \div pow2(-o.shift))

(***************************************************************************)
(* Property setters: none of them runs _handleBounds.                      *)
(***************************************************************************)
setsi(o, val) == [o EXCEPT !.val = val]
setminsi(o, minsi) == [o EXCEPT !.min = cast(minsi)]
setmaxsi(o, maxsi) == [o EXCEPT !.max = cast(maxsi)]

(***************************************************************************)
(* Indexing.                                                               *)
(***************************************************************************)
\* __getitem__ with an integer key: bit key - shift of the stored integer
getitem_bit(o, key) ==
    LET i == key - o.shift IN
    IF i < 0 THEN Raise("ValueError", o)
    ELSE Ok(o, pyand(pyrshift(o.val, i), 1) # 0)

\* intbv(val, _nrbits=nrbits): the unscaled container a slice get returns
intbv(val, nrbits) == [nrbits |-> nrbits, val |-> val]

\* __getitem__ with a slice key i:j (either may be None): the shift is
\* subtracted from key.start and key.stop before either is tested for None
getitem_slice(o, i, j) ==
    IF IsNone(i) \/ IsNone(j) THEN Raise("TypeError", o)
    ELSE LET ii == i[1] - o.shift
             jj == j[1] - o.shift IN
         IF jj < 0 THEN Raise("ValueError", o)
         ELSE IF ii <= jj THEN Raise("ValueError", o)
         ELSE Ok(o, intbv(pyrshift(pyand(o.val, pylshift(1, ii) - 1), jj), ii - jj))

\* __setitem__ with an integer key: bit key of the stored integer; self.si is
\* assigned before _handleBounds runs
setitem_bit(o, key, val) ==
    LET i == key IN
    IF val = 1
    THEN IF i < 0 THEN Raise("ValueError", o)
         ELSE LET o1 == setsi(o, pyor(o.val, pylshift(1, i))) IN
              IF handleBounds(o1) THEN Ok(o1, None) ELSE Raise("ValueError", o1)
    ELSE IF val = 0
    THEN IF i < 0 THEN Raise("ValueError", o)
         ELSE LET o1 == setsi(o, pyand(o.val, pyinvert(pylshift(1, i)))) IN
              IF handleBounds(o1) THEN Ok(o1, None) ELSE Raise("ValueError", o1)
    ELSE Raise("ValueError", o)

\* __setitem__ with a slice key i:j (either may be None)
setitem_slice(o, i, j, val) ==
    LET jj == IF IsNone(j) THEN 0 ELSE j[1] IN
    IF jj < 0 THEN Raise("ValueError", o)
    ELSE IF IsNone(i)
    THEN LET q == pymod(o.val, pylshift(1, jj))
             o1 == setsi(o, val * pylshift(1, jj) + q) IN
         IF handleBounds(o1) THEN Ok(o1, None) ELSE Raise("ValueError", o1)
    ELSE IF i[1] <= jj THEN Raise("ValueError", o)
    ELSE LET lim == pylshift(1, i[1] - jj) IN
         IF val >= lim \/ val < -lim THEN Raise("ValueError", o)
         ELSE LET mask == pylshift(lim - 1, jj)
                  o1 == setsi(o, pyand(o.val, pyinvert(mask)))
                  o2 == setsi(o1, pyor(o1.val, pylshift(val, jj))) IN
              IF handleBounds(o2) THEN Ok(o2, None) ELSE Raise("ValueError", o2)

(***************************************************************************)
(* In-place shifts: they shift the stored integer and return self.         *)
(***************************************************************************)
RECURSIVE ilshift(_, _)
ilshift(o, other) ==
    IF isfixbv(other)
    THEN IF is_integer(other.obj)
         THEN LET n == toint(other.obj) IN
              IF n < 0 THEN Raise("ValueError", o)
              ELSE LET o1 == setsi(o, pylshift(o.val, n)) IN
                   IF handleBounds(o1) THEN Ok(o1, o1) ELSE Raise("ValueError", o1)
         ELSE Raise("TypeError", o)
    ELSE LET r == ilshift(o, FixArg(new(other.n, 0))) IN
         IF r.err # "ok" THEN r
         ELSE IF handleBounds(r.obj) THEN r ELSE Raise("ValueError", r.obj)

RECURSIVE irshift(_, _)
irshift(o, other) ==
    IF isfixbv(other)
    THEN IF is_integer(other.obj)
         THEN LET n == toint(other.obj) IN
              IF n < 0 THEN Raise("ValueError", o)
              ELSE LET o1 == setsi(o, pyrshift(o.val, n)) IN
                   IF handleBounds(o1) THEN Ok(o1, o1) ELSE Raise("ValueError", o1)
         ELSE Raise("TypeError", o)
    ELSE LET r == irshift(o, FixArg(new(other.n, 0))) IN
         IF r.err # "ok" THEN r
         ELSE IF handleBounds(r.obj) THEN r ELSE Raise("ValueError", r.obj)

(***************************************************************************)
(* Operators that build a new instance; the result never carries bounds.   *)
(***************************************************************************)
\* align: both operands as new instances on the smaller shift
RECURSIVE align(_, _)
align(o, other) ==
    IF isfixbv(other)
    THEN LET cd == alignvalues(<<o.val, o.shift>>, <<other.obj.val, other.obj.shift>>) IN
         <<new(cd[1][1], cd[1][2]), new(cd[2][1], cd[2][2])>>
    ELSE align(o, FixArg(new(other.n, 0)))

\* Variant of __add__ that adds the stored integers without aligning them
add_noalign(o, other) ==
    LET y == IF isfixbv(other) THEN other.obj ELSE new(other.n, 0) IN
    Ok(o, new(o.val + y.val, o.shift))

RECURSIVE add(_, _)
add(o, other) ==
    IF isfixbv(other)
    THEN LET cd == align(o, other) IN Ok(o, new(cd[1].val + cd[2].val, cd[1].shift))
    ELSE add(o, FixArg(new(other.n, 0)))

RECURSIVE sub(_, _)
sub(o, other) ==
    IF isfixbv(other)
    THEN LET cd == align(o, other) IN Ok(o, new(cd[1].val - cd[2].val, cd[1].shift))
    ELSE sub(o, FixArg(new(other.n, 0)))

\* other - self for an integer other
rsub(o, other) == Ok(o, sub(new(other.n, 0), FixArg(o)).out)

RECURSIVE mul(_, _)
mul(o, other) ==
    IF isfixbv(other)
    THEN Ok(o, new(o.val * other.obj.val, o.shift + other.obj.shift))
    ELSE mul(o, FixArg(new(other.n, 0)))

\* Variant of __truediv__ that raises the error of the in-place form
truediv_typeerror(o, other) == Raise("TypeError", o)

truediv(o, other) == Raise("NotImplementedError", o)

\* other / self for an integer other
rtruediv(o, other) == Raise(truediv(new(other.n, 0), FixArg(o)).err, o)

itruediv(o, other) == Raise("TypeError", o)

\* Variant of __floordiv__ whose result keeps the common shift
floordiv_keepshift(o, other) ==
    LET cd == align(o, other) IN
    IF cd[2].val = 0 THEN Raise("ZeroDivisionError", o)
    ELSE Ok(o, new(pyfloordiv(cd[1].val, cd[2].val), cd[1].shift))

RECURSIVE floordiv(_, _)
floordiv(o, other) ==
    IF isfixbv(other)
    THEN LET cd == align(o, other) IN
         IF cd[2].val = 0 THEN Raise("ZeroDivisionError", o)
         ELSE Ok(o, new(pyfloordiv(cd[1].val, cd[2].val), 0))
    ELSE floordiv(o, FixArg(new(other.n, 0)))

RECURSIVE mod(_, _)
mod(o, other) ==
    IF isfixbv(other)
    THEN LET cd == align(o, other) IN
         IF cd[2].val = 0 THEN Raise("ZeroDivisionError", o)
         ELSE Ok(o, new(pymod(cd[1].val, cd[2].val), cd[1].shift))
    ELSE mod(o, FixArg(new(other.n, 0)))

\* __pow__: a negative power makes si**powerval a float (or divides by zero),
\* which fixbv() refuses
pow(o, other) ==
    IF isfixbv(other) /\ ~is_integer(other.obj) THEN Raise("TypeError", o)
    ELSE LET powerval == IF isfixbv(other) THEN toint(other.obj) ELSE other.n IN
         IF powerval < 0
         THEN IF o.val = 0 THEN Raise("ZeroDivisionError", o) ELSE Raise("TypeError", o)
         ELSE Ok(o, new(ipow(o.val, powerval), o.shift * powerval))

\* the in-place operators hand back result = self.__op__(other) after
\* result._handleBounds(); self is not assigned to
checked(r) ==
    IF r.err # "ok" THEN r
    ELSE IF handleBounds(r.out) THEN r ELSE Raise("ValueError", r.obj)

\* Variant of __iadd__ that stores the sum in self and validates self
iadd_stored(o, other) ==
    LET r == add(o, other)
        o1 == [o EXCEPT !.val = r.out.val, !.shift = r.out.shift] IN
    IF handleBounds(o1) THEN Ok(o1, o1) ELSE Raise("ValueError", o1)

iadd(o, other) == checked(add(o, other))
isub(o, other) == checked(sub(o, other))
imul(o, other) == checked(mul(o, other))
ifloordiv(o, other) == checked(floordiv(o, other))
imod(o, other) == checked(mod(o, other))

\* Variant of __pos__ that copies self, bounds included
pos_copy(o) == Ok(o, fixbv(o.val, o.shift, o.min, o.max).obj)

neg(o) == Ok(o, new(-o.val, o.shift))
pos(o) == Ok(o, new(o.val, o.shift))
abs(o) == Ok(o, new(IF o.val < 0 THEN -o.val ELSE o.val, o.shift))

\* fixto: self on other's shift, truncating when that shift is larger
fixto(o, other) ==
    IF ~isfixbv(other) THEN Raise("Exception", o)
    ELSE LET shift2 == other.obj.shift
             sh == o.shift - shift2 IN
         IF sh >= 0 THEN Ok(o, new(o.val * pow2(sh), shift2))
         ELSE Ok(o, new(o.val \div pow2(-sh), shift2))

\* Variant of __lshift__ that shifts the stored integer, as __ilshift__ does
lshift_stored(o, other) ==
    LET y == IF isfixbv(other) THEN other.obj ELSE new(other.n, 0) IN
    IF ~is_integer(y) THEN Raise("TypeError", o)
    ELSE IF toint(y) < 0 THEN Raise("ValueError", o)
    ELSE Ok(o, new(pylshift(o.val, toint(y)), o.shift))

\* the non-mutating shifts move the shift, not the stored integer
RECURSIVE lshift(_, _)
lshift(o, other) ==
    IF isfixbv(other)
    THEN IF is_integer(other.obj)
         THEN Ok(o, new(o.val, o.shift + toint(other.obj)))
         ELSE Raise("TypeError", o)
    ELSE lshift(o, FixArg(new(other.n, 0)))

RECURSIVE rshift(_, _)
rshift(o, other) ==
    IF isfixbv(other)
    THEN IF is_integer(other.obj)
         THEN Ok(o, new(o.val, o.shift - toint(other.obj)))
         ELSE Raise("TypeError", o)
    ELSE rshift(o, FixArg(new(other.n, 0)))

\* nrbits: 0 without a lower bound; maxsi - 1 on a missing maxsi is a TypeError
getnrbits(o) ==
    IF IsNone(o.min) THEN Ok(o, 0)
    ELSE IF IsNone(o.max) THEN Raise("TypeError", o)
    ELSE Ok(o, Max(calc_nr_bits(o.min[1]), calc_nr_bits(o.max[1] - 1)))

\* signed: its test reads self.min, an attribute no fixbv has (the lower bound
\* is _min, read through minsi), so the call ends in AttributeError before
\* either branch runs
signed(o) == Raise("AttributeError", o)

\* __invert__: the result is built with the default shift 0
invert(o) ==
    LET nrbits == getnrbits(o) IN
    IF nrbits.err # "ok" THEN nrbits
    ELSE IF nrbits.out # 0 /\ o.min[1] >= 0
    THEN Ok(o, new(pyand(pyinvert(o.val), pylshift(1, nrbits.out) - 1), 0))
    ELSE Ok(o, new(pyinvert(o.val), 0))

(***************************************************************************)
(* Comparisons: align, then compare the stored integers.                   *)
(***************************************************************************)
\* Variant of __eq__ that compares the stored integers without aligning them
eq_noalign(o, other) ==
    LET y == IF isfixbv(other) THEN other.obj ELSE new(other.n, 0) IN
    Ok(o, o.val = y.val)

RECURSIVE eq(_, _)
eq(o, other) ==
    IF isfixbv(other)
    THEN LET cd == align(o, other) IN Ok(o, cd[1].val = cd[2].val)
    ELSE eq(o, FixArg(new(other.n, 0)))

ne(o, other) == Ok(o, ~eq(o, other).out)

RECURSIVE lt(_, _)
lt(o, other) ==
    IF isfixbv(other)
    THEN LET cd == align(o, other) IN Ok(o, cd[1].val < cd[2].val)
    ELSE lt(o, FixArg(new(other.n, 0)))

RECURSIVE le(_, _)
le(o, other) ==
    IF isfixbv(other)
    THEN LET cd == align(o, other) IN Ok(o, cd[1].val <= cd[2].val)
    ELSE le(o, FixArg(new(other.n, 0)))

gt(o, other) == Ok(o, ~le(o, other).out)
ge(o, other) == Ok(o, ~lt(o, other).out)

(***************************************************************************)
(* The call that has just returned.                                        *)
(***************************************************************************)
\* op: the method; self: the heap index of the instance it was called on (0
\* for the constructor); args: its arguments; r: what it handed back; ret: what
\* the value returned is ("new": a new instance, "self": the instance itself,
\* "value": a plain value, "none": nothing); pre: the heap as the call found it
Call(op, self, args, r, ret, pre) ==
    [args |-> args, err |-> r.err, op |-> op, out |-> r.out, pre |-> pre,
     ret |-> ret, self |-> self]

Ints == -MaxSi .. MaxSi
Shifts == -MaxShift .. MaxShift
BoundIn == {None, Some(-MaxBound), Some(0), Some(MaxBound)}

\* the stored integer stays within the model's range
InRange(o) == o.val \in Ints

\* a shift count or power: an instance that stands for an integer stands for
\* one of at most MaxCount
CountIn(a) ==
    a.kind = "fixbv" /\ is_integer(a.obj) => toint(a.obj) <= MaxCount

(***************************************************************************)
(* Spec: one instance, from its construction through its mutations.        *)
(***************************************************************************)
Init == heap = <<>> /\ res = Idle

\* x = fixbv(val, shift, min, max)
Construct ==
    /\ res = Idle
    /\ heap = <<>>
    /\ \E val \in Ints, shift \in Shifts, min \in BoundIn, max \in BoundIn :
         LET r == fixbv(val, shift, min, max) IN
         /\ heap' = IF r.err = "ok" THEN <<r.obj>> ELSE heap
         /\ res' = Call("init", 0, <<val, shift, min, max>>, r,
                        IF r.err = "ok" THEN "new" ELSE "none", heap)

\* the second operand as the caller writes it: the instance bound at heap
\* index ref, or an integer
Ref(j) == [kind |-> "fixbv", ref |-> j]
Operand(h, a) == IF a.kind = "fixbv" THEN FixArg(h[a.ref]) ELSE a

Bits == 0 .. 2
Keys == -1 .. MaxIdx
OptKeys == {None} \cup {Some(k) : k \in Keys}
SliceVals == -MaxVal .. MaxVal
Counts == {IntArg(n) : n \in -1 .. MaxIdx}

\* method op of instance i has run on args and handed back r: the instance is
\* left as r.obj, and the call returns a value of kind ret unless it raised
Apply(op, i, args, r, ret) ==
    /\ heap' = [heap EXCEPT ![i] = r.obj]
    /\ res' = Call(op, i, args, r, IF r.err = "ok" THEN ret ELSE "none", heap)

\* x.si = val
SetSi ==
    /\ res = Idle
    /\ \E i \in DOMAIN heap, val \in Ints :
         LET r == Ok(setsi(heap[i], val), None) IN
         /\ Apply("setsi", i, <<val>>, r, "none")

\* x.minsi = minsi
SetMinSi ==
    /\ res = Idle
    /\ \E i \in DOMAIN heap, minsi \in BoundIn :
         LET r == Ok(setminsi(heap[i], minsi), None) IN
         /\ Apply("setminsi", i, <<minsi>>, r, "none")

\* x.maxsi = maxsi
SetMaxSi ==
    /\ res = Idle
    /\ \E i \in DOMAIN heap, maxsi \in BoundIn :
         LET r == Ok(setmaxsi(heap[i], maxsi), None) IN
         /\ Apply("setmaxsi", i, <<maxsi>>, r, "none")

\* x[key]
GetItemBit ==
    /\ res = Idle
    /\ \E i \in DOMAIN heap, key \in Keys :
         LET r == getitem_bit(heap[i], key) IN
         /\ Apply("getitem_bit", i, <<key>>, r, "value")

\* x[i:j]
GetItemSlice ==
    /\ res = Idle
    /\ \E x \in DOMAIN heap, i \in OptKeys, j \in OptKeys :
         LET r == getitem_slice(heap[x], i, j) IN
         /\ Apply("getitem_slice", x, <<i, j>>, r, "value")

\* x.signed()
Signed ==
    /\ res = Idle
    /\ \E x \in DOMAIN heap :
         LET r == signed(heap[x]) IN
         /\ Apply("signed", x, <<>>, r, "value")

\* x[key] = val
SetItemBit ==
    /\ res = Idle
    /\ \E i \in DOMAIN heap, key \in Keys, val \in Bits :
         LET r == setitem_bit(heap[i], key, val) IN
         /\ InRange(r.obj)
         /\ Apply("setitem_bit", i, <<key, val>>, r, "none")

\* x[hi:lo] = val
SetItemSlice ==
    /\ res = Idle
    /\ \E i \in DOMAIN heap, hi \in OptKeys, lo \in OptKeys, val \in SliceVals :
         LET r == setitem_slice(heap[i], hi, lo, val) IN
         /\ InRange(r.obj)
         /\ Apply("setitem_slice", i, <<hi, lo, val>>, r, "none")

\* x <<= other
ILshift ==
    /\ res = Idle
    /\ \E i \in DOMAIN heap, a \in Counts \cup {Ref(j) : j \in DOMAIN heap} :
         /\ CountIn(Operand(heap, a))
         /\ LET r == ilshift(heap[i], Operand(heap, a)) IN
            /\ InRange(r.obj)
            /\ Apply("ilshift", i, <<a>>, r, "self")

\* x >>= other
IRshift ==
    /\ res = Idle
    /\ \E i \in DOMAIN heap, a \in Counts \cup {Ref(j) : j \in DOMAIN heap} :
         /\ CountIn(Operand(heap, a))
         /\ LET r == irshift(heap[i], Operand(heap, a)) IN
            /\ InRange(r.obj)
            /\ Apply("irshift", i, <<a>>, r, "self")

\* the caller goes on to its next statement; a value returned is dropped
Return ==
    /\ res # Idle
    /\ res' = Idle
    /\ UNCHANGED heap

Next ==
    \/ Construct
    \/ SetSi
    \/ SetMinSi
    \/ SetMaxSi
    \/ GetItemBit
    \/ GetItemSlice
    \/ Signed
    \/ SetItemBit
    \/ SetItemSlice
    \/ ILshift
    \/ IRshift
    \/ Return

Spec == Init /\ [][Next]_vars
(***************************************************************************)
(* SpecOps: the operators, applied once to two constructed instances.      *)
(***************************************************************************)
\* no bounds, the bounds 0 <= si < 1 whose nrbits is 0, and 0 <= si < MaxBound
OpBounds == {<<None, None>>, <<Some(0), Some(1)>>, <<Some(0), Some(MaxBound)>>}
OpInts == {IntArg(n) : n \in -1 .. 2}
Others == {Ref(j) : j \in DOMAIN heap} \cup OpInts

\* the instances fixbv(val, shift, min, max) constructs
OpObjs ==
    {r.obj : r \in {q \in {fixbv(v, s, b[1], b[2]) :
                             v \in -MaxVal .. MaxVal, s \in Shifts, b \in OpBounds} :
                    q.err = "ok"}}

InitOps == heap \in {<<x, y>> : x \in OpObjs, y \in OpObjs} /\ res = Idle

\* x.align(other)
Align ==
    /\ res = Idle
    /\ \E i \in DOMAIN heap, a \in Others :
         LET r == Ok(heap[i], align(heap[i], Operand(heap, a))) IN
         /\ Apply("align", i, <<a>>, r, "value")

\* x + other
Add ==
    /\ res = Idle
    /\ \E i \in DOMAIN heap, a \in Others :
         LET r == add(heap[i], Operand(heap, a)) IN
         /\ Apply("add", i, <<a>>, r, "new")

\* x - other
Sub ==
    /\ res = Idle
    /\ \E i \in DOMAIN heap, a \in Others :
         LET r == sub(heap[i], Operand(heap, a)) IN
         /\ Apply("sub", i, <<a>>, r, "new")

\* n - x
Rsub ==
    /\ res = Idle
    /\ \E i \in DOMAIN heap, a \in OpInts :
         LET r == rsub(heap[i], Operand(heap, a)) IN
         /\ Apply("rsub", i, <<a>>, r, "new")

\* x * other
Mul ==
    /\ res = Idle
    /\ \E i \in DOMAIN heap, a \in Others :
         LET r == mul(heap[i], Operand(heap, a)) IN
         /\ Apply("mul", i, <<a>>, r, "new")

\* x / other
TrueDiv ==
    /\ res = Idle
    /\ \E i \in DOMAIN heap, a \in Others :
         LET r == truediv(heap[i], Operand(heap, a)) IN
         /\ Apply("truediv", i, <<a>>, r, "new")

\* n / x
RTrueDiv ==
    /\ res = Idle
    /\ \E i \in DOMAIN heap, a \in OpInts :
         LET r == rtruediv(heap[i], Operand(heap, a)) IN
         /\ Apply("rtruediv", i, <<a>>, r, "new")

\* x /= other
ITrueDiv ==
    /\ res = Idle
    /\ \E i \in DOMAIN heap, a \in Others :
         LET r == itruediv(heap[i], Operand(heap, a)) IN
         /\ Apply("itruediv", i, <<a>>, r, "new")

\* x += other
IAdd ==
    /\ res = Idle
    /\ \E i \in DOMAIN heap, a \in Others :
         LET r == iadd(heap[i], Operand(heap, a)) IN
         /\ Apply("iadd", i, <<a>>, r, "new")

\* x -= other
ISub ==
    /\ res = Idle
    /\ \E i \in DOMAIN heap, a \in Others :
         LET r == isub(heap[i], Operand(heap, a)) IN
         /\ Apply("isub", i, <<a>>, r, "new")

\* x *= other
IMul ==
    /\ res = Idle
    /\ \E i \in DOMAIN heap, a \in Others :
         LET r == imul(heap[i], Operand(heap, a)) IN
         /\ Apply("imul", i, <<a>>, r, "new")

\* x //= other
IFloorDiv ==
    /\ res = Idle
    /\ \E i \in DOMAIN heap, a \in Others :
         LET r == ifloordiv(heap[i], Operand(heap, a)) IN
         /\ Apply("ifloordiv", i, <<a>>, r, "new")

\* x %= other
IMod ==
    /\ res = Idle
    /\ \E i \in DOMAIN heap, a \in Others :
         LET r == imod(heap[i], Operand(heap, a)) IN
         /\ Apply("imod", i, <<a>>, r, "new")

\* x // other
FloorDiv ==
    /\ res = Idle
    /\ \E i \in DOMAIN heap, a \in Others :
         LET r == floordiv(heap[i], Operand(heap, a)) IN
         /\ Apply("floordiv", i, <<a>>, r, "new")

\* x % other
Mod ==
    /\ res = Idle
    /\ \E i \in DOMAIN heap, a \in Others :
         LET r == mod(heap[i], Operand(heap, a)) IN
         /\ Apply("mod", i, <<a>>, r, "new")

\* x ** other
Pow ==
    /\ res = Idle
    /\ \E i \in DOMAIN heap, a \in Others :
         /\ CountIn(Operand(heap, a))
         /\ LET r == pow(heap[i], Operand(heap, a)) IN
            Apply("pow", i, <<a>>, r, "new")

\* x << other
Lshift ==
    /\ res = Idle
    /\ \E i \in DOMAIN heap, a \in Others :
         LET r == lshift(heap[i], Operand(heap, a)) IN
         /\ Apply("lshift", i, <<a>>, r, "new")

\* x >> other
Rshift ==
    /\ res = Idle
    /\ \E i \in DOMAIN heap, a \in Others :
         LET r == rshift(heap[i], Operand(heap, a)) IN
         /\ Apply("rshift", i, <<a>>, r, "new")

\* x.fixto(other)
FixTo ==
    /\ res = Idle
    /\ \E i \in DOMAIN heap, a \in Others :
         LET r == fixto(heap[i], Operand(heap, a)) IN
         /\ Apply("fixto", i, <<a>>, r, "new")

\* x == other
Eq ==
    /\ res = Idle
    /\ \E i \in DOMAIN heap, a \in Others :
         LET r == eq(heap[i], Operand(heap, a)) IN
         /\ Apply("eq", i, <<a>>, r, "value")

\* x != other
Ne ==
    /\ res = Idle
    /\ \E i \in DOMAIN heap, a \in Others :
         LET r == ne(heap[i], Operand(heap, a)) IN
         /\ Apply("ne", i, <<a>>, r, "value")

\* x < other
Lt ==
    /\ res = Idle
    /\ \E i \in DOMAIN heap, a \in Others :
         LET r == lt(heap[i], Operand(heap, a)) IN
         /\ Apply("lt", i, <<a>>, r, "value")

\* x <= other
Le ==
    /\ res = Idle
    /\ \E i \in DOMAIN heap, a \in Others :
         LET r == le(heap[i], Operand(heap, a)) IN
         /\ Apply("le", i, <<a>>, r, "value")

\* x > other
Gt ==
    /\ res = Idle
    /\ \E i \in DOMAIN heap, a \in Others :
         LET r == gt(heap[i], Operand(heap, a)) IN
         /\ Apply("gt", i, <<a>>, r, "value")

\* x >= other
Ge ==
    /\ res = Idle
    /\ \E i \in DOMAIN heap, a \in Others :
         LET r == ge(heap[i], Operand(heap, a)) IN
         /\ Apply("ge", i, <<a>>, r, "value")

\* -x
Neg ==
    /\ res = Idle
    /\ \E i \in DOMAIN heap :
         LET r == neg(heap[i]) IN
         /\ Apply("neg", i, <<>>, r, "new")

\* +x
Pos ==
    /\ res = Idle
    /\ \E i \in DOMAIN heap :
         LET r == pos(heap[i]) IN
         /\ Apply("pos", i, <<>>, r, "new")

\* abs(x)
Abs ==
    /\ res = Idle
    /\ \E i \in DOMAIN heap :
         LET r == abs(heap[i]) IN
         /\ Apply("abs", i, <<>>, r, "new")

\* ~x
Invert ==
    /\ res = Idle
    /\ \E i \in DOMAIN heap :
         LET r == invert(heap[i]) IN
         /\ Apply("invert", i, <<>>, r, "new")

NextOps ==
    \/ Align
    \/ Add
    \/ Sub
    \/ Rsub
    \/ Mul
    \/ TrueDiv
    \/ RTrueDiv
    \/ ITrueDiv
    \/ FloorDiv
    \/ Mod
    \/ Pow
    \/ Lshift
    \/ Rshift
    \/ FixTo
    \/ Eq
    \/ Ne
    \/ Lt
    \/ Le
    \/ Gt
    \/ Ge
    \/ Neg
    \/ Pos
    \/ Abs
    \/ Invert
    \/ ILshift
    \/ IRshift
    \/ IAdd
    \/ ISub
    \/ IMul
    \/ IFloorDiv
    \/ IMod

SpecOps == InitOps /\ [][NextOps]_vars
(***************************************************************************)
(* SpecCopy: an instance and a copy of it, each mutated on its own.        *)
(***************************************************************************)
CopyVals == -MaxCopy .. MaxCopy
\* the bounds an instance of SpecCopy is given
CopyBounds == {None, Some(0), Some(MaxBound)}

InitCopy ==
    /\ heap \in {<<x>> : x \in {o \in OpObjs : /\ o.val \in CopyVals
                                              /\ o.max \in CopyBounds}}
    /\ res = Idle

\* a call that hands back a new instance binds it to the next heap index;
\* the instance it was made from is left as the call left it
Bind(op, x, r) ==
    /\ heap' = IF r.err = "ok" THEN Append(heap, r.out) ELSE heap
    /\ res' = Call(op, x, <<>>, [r EXCEPT !.out = None],
                   IF r.err = "ok" THEN "new" ELSE "none", heap)

\* y = fixbv(x)
CopyConstruct ==
    /\ res = Idle /\ Len(heap) = 1
    /\ Bind("copy_init", 1, fixbv_from(heap[1]))

\* y = copy.copy(x)
Copy ==
    /\ res = Idle /\ Len(heap) = 1
    /\ Bind("copy", 1, copy(heap[1]))

\* y = copy.deepcopy(x)
DeepCopy ==
    /\ res = Idle /\ Len(heap) = 1
    /\ Bind("deepcopy", 1, deepcopy(heap[1]))

\* the stored integers, the bounds and the slices written stay within a few
\* values
CopyRange ==
    /\ \A i \in DOMAIN heap :
         /\ heap[i].val \in CopyVals
         /\ heap[i].min \in CopyBounds /\ heap[i].max \in CopyBounds
    /\ (res.op = "setitem_slice" =>
           /\ res.args[1] \in {None, Some(2)}
           /\ res.args[2] \in {None, Some(1)}
           /\ res.args[3] \in CopyVals)

NextCopy ==
    \/ CopyConstruct
    \/ Copy
    \/ DeepCopy
    \/ SetSi /\ CopyRange'
    \/ SetMinSi /\ CopyRange'
    \/ SetMaxSi /\ CopyRange'
    \/ SetItemBit /\ CopyRange'
    \/ SetItemSlice /\ CopyRange'
    \/ ILshift /\ CopyRange'
    \/ IRshift /\ CopyRange'
    \/ Return

SpecCopy == InitCopy /\ [][NextCopy]_vars

(***************************************************************************)
(* SpecFloat: construction from floats.                                    *)
(***************************************************************************)
\* the floats of magnitude up to MaxVal
FloatNums == -(MaxVal * pow2(FracBits)) .. MaxVal * pow2(FracBits)

\* lower and upper bounds passed in: absent, an integer or a float
FloatMin == {None, Some(IntArg(0)), Some(FloatArg(-2)),
             Some(FloatArg(-(MaxBound * pow2(FracBits))))}
FloatMax == {None, Some(IntArg(MaxBound)), Some(FloatArg(1)),
             Some(FloatArg(MaxBound * pow2(FracBits) - 2))}

InitFloat == heap = <<>> /\ res = Idle

\* x = fixbv(val, shift, min, max, asfloat) with a float val
ConstructFloat ==
    /\ res = Idle
    /\ heap = <<>>
    /\ \E n \in FloatNums, shift \in Shifts, min \in FloatMin, max \in FloatMax,
          asfloat \in BOOLEAN :
         LET r == fixbv_asfloat(FloatArg(n), shift, min, max, asfloat) IN
         /\ heap' = IF r.err = "ok" THEN <<r.obj>> ELSE heap
         /\ res' = Call("init_asfloat", 0, <<FloatArg(n), shift, min, max, asfloat>>, r,
                        IF r.err = "ok" THEN "new" ELSE "none", heap)

NextFloat ==
    \/ ConstructFloat
    \/ Return

SpecFloat == InitFloat /\ [][NextFloat]_vars

(***************************************************************************)
(* Properties.                                                             *)
(***************************************************************************)
\* the instance the pending call was made on, as the call found it
Self == res.pre[res.self]

\* the second operand of the pending call read as a pair of stored integer
\* and shift: an integer n stands for (n, 0)
Other ==
    LET a == res.args[1] IN
    IF a.kind = "fixbv" THEN res.pre[a.ref]
    ELSE Obj(a.n, 0, None, None)

\* the real value val * 2**shift of o in units of 2**e, for e <= o.shift
Real(o, e) == o.val * pow2(o.shift - e)

\* the smaller of the two operands' shifts
CommonShift == Min(Self.shift, Other.shift)

\* both bounds absent, or both present with minsi < maxsi and minsi <= si < maxsi
BoundsInv(o) ==
    \/ IsNone(o.min) /\ IsNone(o.max)
    \/ /\ ~IsNone(o.min) /\ ~IsNone(o.max)
       /\ o.min[1] < o.max[1]
       /\ o.min[1] <= o.val /\ o.val < o.max[1]

Bounded(o) == ~IsNone(o.min) /\ ~IsNone(o.max)

Mutators == {"setsi", "setminsi", "setmaxsi", "setitem_bit", "setitem_slice", "ilshift", "irshift"}

\* C1: construction and every mutating operation that returns without error
\* (the setters of si, minsi and maxsi, bit set, slice set, in-place shifts)
\* leave the bounds both absent or both present with minsi < maxsi and
\* minsi <= si < maxsi, given that the instance was so before the operation.
C1_BoundsKept ==
    (/\ res.op \in Mutators \cup {"init"}
     /\ res.err = "ok"
     /\ \A i \in DOMAIN res.pre : BoundsInv(res.pre[i]))
    => \A i \in DOMAIN heap : BoundsInv(heap[i])

\* C2: when bit set, slice set or an in-place shift on a bounded instance
\* reports an error, the instance's stored integer, shift and bounds are what
\* they were before the call.
C2_FailedMutationKeepsState ==
    (/\ res.op \in {"setitem_bit", "setitem_slice", "ilshift", "irshift"}
     /\ res.err # "ok"
     /\ Bounded(Self) /\ BoundsInv(Self))
    => heap = res.pre

\* C3: fixbv(val, shift, min, max) on integers raises and produces no instance
\* when (a) exactly one of min and max is given, (b) min >= max, or (c) both
\* are given and val is outside [min, max), which is a ValueError; every other
\* construction succeeds with si, shift, minsi, maxsi equal to the inputs.
C3_Construction ==
    res.op = "init" =>
        LET val == res.args[1]
            shift == res.args[2]
            min == res.args[3]
            max == res.args[4]
            a == IsNone(min) # IsNone(max)
            both == ~IsNone(min) /\ ~IsNone(max)
            b == both /\ min[1] >= max[1]
            c == both /\ ~(min[1] <= val /\ val < max[1])
        IN  IF a \/ b \/ c
            THEN /\ res.err # "ok"
                 /\ res.ret = "none"
                 /\ heap = <<>>
                 /\ (c /\ ~b => res.err = "ValueError")
            ELSE /\ res.err = "ok"
                 /\ res.ret = "new"
                 /\ heap = <<Obj(val, shift, min, max)>>

\* fixbv(5, 0, min=0, max=4) has raised the range error
C3_Witness ==
    /\ res.op = "init"
    /\ res.args = <<5, 0, Some(0), Some(4)>>
    /\ res.err = "ValueError"
    /\ heap = <<>>

\* C4: align (alignvalues) returns both operands on the shift e = min(ea, eb)
\* with their real values unchanged, returns the operand that already had
\* the smaller shift unchanged, and alignvalues(b, a) returns the same two
\* results in swapped order.
C4_AlignExact ==
    res.op = "align" =>
        LET a == <<Self.val, Self.shift>>
            b == <<Other.val, Other.shift>>
            e == CommonShift
            x == res.out[1]
            y == res.out[2]
            ba == alignvalues(b, a)
        IN  /\ res.err = "ok"
            /\ x.shift = e /\ y.shift = e
            /\ x.val = Real(Self, e) /\ y.val = Real(Other, e)
            /\ (a[2] = e => <<x.val, x.shift>> = a)
            /\ (b[2] = e => <<y.val, y.shift>> = b)
            /\ ba = <<(<<y.val, y.shift>>), (<<x.val, x.shift>>)>>

\* an operand on the smaller shift has been aligned with one on a larger shift
C4_Witness ==
    /\ res.op = "align"
    /\ res.err = "ok"
    /\ Self.shift < Other.shift
    /\ Other.val # 0
    /\ res.out[2].val # Other.val
    /\ res.out[1].val = Self.val

\* C5: x + y and x - y (and n - x) have the shift min(ex, ey) and a stored
\* integer s with s * 2**min(ex, ey) equal to the sum (the difference) of the
\* operands' real values; an integer operand n counts as (n, 0).
C5_AddSubExact ==
    res.op \in {"add", "sub", "rsub"} =>
        LET e == CommonShift IN
        /\ res.err = "ok"
        /\ res.out.shift = e
        /\ (res.op = "add" => res.out.val = Real(Self, e) + Real(Other, e))
        /\ (res.op = "sub" => res.out.val = Real(Self, e) - Real(Other, e))
        /\ (res.op = "rsub" => res.out.val = Real(Other, e) - Real(Self, e))

\* two instances on different shifts have been subtracted
C5_Witness ==
    /\ res.op = "sub"
    /\ res.err = "ok"
    /\ res.args[1].kind = "fixbv"
    /\ Self.shift > Other.shift
    /\ Self.val # 0 /\ Other.val # 0

\* q and r are Python's floored quotient and remainder of a by b # 0
IsDivMod(q, r, a, b) ==
    /\ a = q * b + r
    /\ (b > 0 => 0 <= r /\ r < b)
    /\ (b < 0 => b < r /\ r <= 0)

\* C6: for y's stored integer non-zero, x // y has shift 0 and the stored
\* integer floor(xa / ya) of the aligned stored integers, x % y has the common
\* shift and the stored integer xa mod ya, and (x // y) * y + (x % y) == x.
C6_DivMod ==
    (res.op \in {"floordiv", "mod"} /\ Other.val # 0) =>
        LET e == CommonShift
            xa == Real(Self, e)
            ya == Real(Other, e)
            y == FixArg(Other)
            q == floordiv(Self, y)
            r == mod(Self, y)
        IN  /\ res.err = "ok"
            /\ (res.op = "floordiv" => res.out = q.out)
            /\ (res.op = "mod" => res.out = r.out)
            /\ q.out.shift = 0
            /\ r.out.shift = e
            /\ IsDivMod(q.out.val, r.out.val, xa, ya)
            /\ eq(add(mul(q.out, y).out, FixArg(r.out)).out, FixArg(Self)).out

\* a negative value on a finer shift has been floor-divided, with a remainder
C6_Witness ==
    /\ res.op = "floordiv"
    /\ res.err = "ok"
    /\ Self.val < 0 /\ Other.val > 0
    /\ Self.shift < Other.shift
    /\ mod(Self, FixArg(Other)).out.val # 0

NonMutating ==
    {"add", "sub", "rsub", "mul", "floordiv", "mod", "pow", "neg", "pos", "abs",
     "lshift", "rshift", "invert", "fixto"}

\* C7: every non-mutating operator that returns gives a new instance with
\* minsi and maxsi absent, and leaves both operands as they were, bounds
\* included.
C7_NewUnboundedResult ==
    res.op \in NonMutating =>
        /\ heap = res.pre
        /\ (res.err = "ok" =>
               /\ res.ret = "new"
               /\ IsNone(res.out.min) /\ IsNone(res.out.max))

\* the identity operator has been applied to an instance that carries bounds
C7_Witness ==
    /\ res.op = "pos"
    /\ res.err = "ok"
    /\ Bounded(Self)
    /\ res.out.val = Self.val

\* C8: x == y iff the real values are equal, x < y iff the real value of x is
\* the smaller, exactly one of x < y, x == y, x > y holds, and x > y, x >= y,
\* x != y are the negations of x <= y, x < y, x == y.
C8_Comparisons ==
    res.op \in {"eq", "ne", "lt", "le", "gt", "ge"} =>
        LET e == CommonShift
            rx == Real(Self, e)
            ry == Real(Other, e)
            y == FixArg(Other)
            isEq == eq(Self, y).out
            isLt == lt(Self, y).out
            isGt == gt(Self, y).out
        IN  /\ res.err = "ok"
            /\ (res.op = "eq" => res.out = (rx = ry))
            /\ (res.op = "lt" => res.out = (rx < ry))
            /\ (res.op = "le" => res.out = (rx <= ry))
            /\ (res.op = "ne" => res.out = ~isEq)
            /\ (res.op = "gt" => res.out = ~le(Self, y).out)
            /\ (res.op = "ge" => res.out = ~isLt)
            /\ Cardinality({k \in 1 .. 3 : <<isLt, isEq, isGt>>[k]}) = 1

\* two instances of equal real value on different shifts have compared equal
C8_Witness ==
    /\ res.op = "eq"
    /\ res.args[1].kind = "fixbv"
    /\ Self.shift # Other.shift
    /\ Self.val # 0
    /\ res.out = TRUE

TrueDivs == {"truediv", "rtruediv", "itruediv"}

\* C9 as stated: ordinary, reflected and in-place true division each raise an
\* error of the type kind, and both operands stay as they were.
C9_TrueDivTypeError ==
    res.op \in TrueDivs => res.err = "TypeError" /\ heap = res.pre

\* C9, amended: true division is always rejected and both operands stay as
\* they were; the in-place form raises TypeError, the ordinary and the
\* reflected form raise NotImplementedError.
C9_TrueDivRejected ==
    res.op \in TrueDivs =>
        /\ res.err # "ok"
        /\ heap = res.pre
        /\ (res.op = "itruediv" => res.err = "TypeError")
        /\ (res.op \in {"truediv", "rtruediv"} => res.err = "NotImplementedError")

\* an integer has been divided by a bounded instance
C9_Witness ==
    /\ res.op = "rtruediv"
    /\ res.err = "NotImplementedError"
    /\ Bounded(Self)

\* C10: after a successful x[i] = b with b in {0, 1} and i - shift >= 0 the
\* read x[i] returns b, the write changes stored bit i - shift and no other,
\* and a value other than 0 or 1 is rejected.
C10_SameAddressing ==
    (res.op = "setitem_bit" /\ res.args[1] - Self.shift >= 0) =>
        /\ (res.args[2] \notin {0, 1} => res.err # "ok")
        /\ (res.args[2] \in {0, 1} /\ res.err = "ok" =>
               /\ getitem_bit(heap[res.self], res.args[1]).out = (res.args[2] = 1)
               /\ \A k \in 0 .. MaxIdx + MaxShift + 1 :
                    k # res.args[1] - Self.shift =>
                      getitem_bit(heap[res.self], k + Self.shift).out
                        = getitem_bit(Self, k + Self.shift).out)

\* C11: slice get x[i:j] on an instance with shift e: an omitted j stands for
\* e; when j - e < 0, or i is given and i <= j, an error is reported;
\* otherwise the result is (si >> (j-e)) mod 2**(i-j) with width i - j when i
\* is given, and si >> (j-e) with no width when i is omitted.
C11_SliceGet ==
    res.op = "getitem_slice" =>
        LET i == res.args[1]
            e == Self.shift
            j == IF IsNone(res.args[2]) THEN e ELSE res.args[2][1]
        IN  IF j - e < 0 \/ (~IsNone(i) /\ i[1] <= j)
            THEN res.err # "ok"
            ELSE /\ res.err = "ok"
                 /\ res.out = IF IsNone(i)
                               THEN intbv(pyrshift(Self.val, j - e), 0)
                               ELSE intbv(pyrshift(Self.val, j - e) % pow2(i[1] - j), i[1] - j)

\* C12: signed() never fails and never changes the instance; when a lower
\* bound is set, is >= 0 and nrbits > 0 it returns the low nrbits bits of the
\* stored integer read as a two's-complement number (si mod 2**(nrbits-1),
\* minus 2**(nrbits-1) if bit nrbits-1 is set), and in every other case it
\* returns the stored integer unchanged.
C12_Signed ==
    res.op = "signed" =>
        LET si == Self.val
            nrbits == IF Bounded(Self) THEN getnrbits(Self).out ELSE 0
            msb == nrbits - 1
            unsigned == ~IsNone(Self.min) /\ Self.min[1] >= 0 /\ nrbits > 0
        IN  /\ res.err = "ok"
            /\ heap = res.pre
            /\ res.out = IF unsigned
                          THEN (si % pow2(msb))
                                 - (IF pyrshift(si, msb) % 2 = 1 THEN pow2(msb) ELSE 0)
                          ELSE si

\* the real value of o is an integer
IntValued(o) == o.shift >= 0 \/ o.val % pow2(-o.shift) = 0

\* the integer an integer-valued o stands for
Amount(o) == IF o.shift >= 0 THEN o.val * pow2(o.shift) ELSE o.val \div pow2(-o.shift)

\* C13: for an integer-valued shift amount n >= 0, x << n and x >> n return
\* new instances with x's stored integer and the shift e + n and e - n (so
\* (x << n) >> n has the stored integer and shift of x), while x <<= n and
\* x >>= n keep the shift e and replace the stored integer by si * 2**n and
\* floor(si / 2**n), followed by bounds validation; a shift amount that is a
\* fixbv of non-integer real value ends in a TypeError in all four forms.
C13_ShiftForms ==
    res.op \in {"lshift", "rshift", "ilshift", "irshift"} =>
        LET n == Amount(Other)
            si == IF res.op = "ilshift" THEN Self.val * pow2(n) ELSE Self.val \div pow2(n)
            inplace == [Self EXCEPT !.val = si]
            back == rshift(lshift(Self, IntArg(n)).out, IntArg(n)).out
        IN  /\ (~IntValued(Other) => res.err = "TypeError")
            /\ (IntValued(Other) /\ n >= 0 /\ res.op \in {"lshift", "rshift"} =>
                   /\ res.err = "ok" /\ res.ret = "new"
                   /\ heap = res.pre
                   /\ res.out.val = Self.val
                   /\ res.out.shift = IF res.op = "lshift" THEN Self.shift + n ELSE Self.shift - n
                   /\ back.val = Self.val /\ back.shift = Self.shift)
            /\ (IntValued(Other) /\ n >= 0 /\ res.op \in {"ilshift", "irshift"} =>
                   IF Bounded(Self) /\ ~(Self.min[1] <= si /\ si < Self.max[1])
                   THEN res.err = "ValueError"
                   ELSE /\ res.err = "ok" /\ res.ret = "self"
                        /\ heap = [res.pre EXCEPT ![res.self] = inplace])

\* a bounded instance with an odd stored integer has been shifted right in
\* place by an instance that stands for a positive integer
C13_Witness ==
    /\ res.op = "irshift"
    /\ res.err = "ok"
    /\ res.args[1].kind = "fixbv"
    /\ Amount(Other) >= 1
    /\ Bounded(Self)
    /\ Self.val % 2 = 1
    /\ heap[res.self].val # Self.val

Copies == {"copy_init", "copy", "deepcopy"}

\* C14: fixbv(x), copy(x) and deepcopy(x) give a new instance with the stored
\* integer, shift, minsi and maxsi of x and leave x as it was; a mutation of
\* either of the two (setter, bit set, slice set, in-place shift) leaves the
\* stored integer, shift and bounds of the other as they were.
C14_CopyIndependent ==
    /\ (res.op \in Copies =>
           /\ res.err = "ok"
           /\ res.ret = "new"
           /\ heap = <<Self, Self>>)
    /\ (res.op \in Mutators /\ Len(res.pre) = 2 =>
           \A k \in DOMAIN res.pre : k # res.self => heap[k] = res.pre[k])

\* si is the point of the grid 2**e nearest to the number x, a tie going to
\* the larger one: si - 1/2 <= x * 2**-e < si + 1/2; an integer x is taken
\* as the stored integer itself
Nearest(si, x, e) ==
    IF x.kind = "float"
    THEN LET d == FracBits + e IN
         IF d >= 0
         THEN (2 * si - 1) * pow2(d) <= 2 * x.n /\ 2 * x.n < (2 * si + 1) * pow2(d)
         ELSE si = x.n * pow2(-d)
    ELSE si = x.n

C16_SliceSet ==
    res.op = "setitem_slice" =>
        LET i == res.args[1]
            j == IF IsNone(res.args[2]) THEN 0 ELSE res.args[2][1]
            v == res.args[3]
            si == Self.val
            lim == pow2(i[1] - j)
            field == (si \div pow2(j)) % lim
            si2 == IF IsNone(i) THEN v * pow2(j) + (si % pow2(j))
                   ELSE si - field * pow2(j) + (v % lim) * pow2(j)
        IN  j >= 0 =>
              IF ~IsNone(i) /\ (i[1] <= j \/ v >= lim \/ v < -lim)
              THEN res.err # "ok"
              ELSE IF Bounded(Self) /\ ~(Self.min[1] <= si2 /\ si2 < Self.max[1])
              THEN res.err = "ValueError"
              ELSE /\ res.err = "ok"
                   /\ heap = [res.pre EXCEPT ![res.self] = [Self EXCEPT !.val = si2]]

C18_Invert ==
    res.op = "invert" =>
        LET si == Self.val
            nrbits == IF Bounded(Self)
                      THEN Max(calc_nr_bits(Self.min[1]),
                                calc_nr_bits(Self.max[1] - 1))
                      ELSE 0 IN
        /\ res.err = "ok"
        /\ res.out.shift = Self.shift
        /\ res.out.val = IF Bounded(Self) /\ Self.min[1] >= 0
                         THEN pyinvert(si) % pow2(nrbits)
                         ELSE -si - 1
====
